---- MODULE Spec2Model ----
(***************************************************************************)
(* ERC-20 deployment listener (src/index.js).                              *)
(*                                                                         *)
(* The program subscribes to pending-transaction notifications, filters    *)
(* contract creations, probes the created contract for the ERC-20 call     *)
(* surface, resolves token metadata through a process-lifetime cache and   *)
(* two HTTP sources, and posts one message per detection to a webhook.     *)
(*                                                                         *)
(* JavaScript is single-threaded: the code between two awaits is one       *)
(* atomic step.  Every activation of an async function that is suspended   *)
(* at an await is a frame in the bag `calls`; an action resumes one frame  *)
(* with the outcome the awaited collaborator produced.                     *)
(***************************************************************************)
EXTENDS Integers, Sequences, FiniteSets, Bags, TLC

VARIABLES
  etherscanKey,      \* ETHERSCAN_API_KEY, "" when not configured
  tokenCache,        \* the Map address -> metadata
  pendingListeners,  \* callbacks registered with provider.on('pending')
  errorListeners,    \* handlers registered with provider.websocket.on('error')
  timers,            \* setTimeout entries, in scheduling order
  calls,             \* bag of suspended activations
  events,            \* per delivered pending notification: its transaction and tallies
  errors,            \* number of transport errors reported
  console,           \* the lines the latest step wrote
  ncalls,            \* direct calls made by the sequential caller
  journal            \* the last two direct calls that returned

vars == <<etherscanKey, tokenCache, pendingListeners, errorListeners, timers,
          calls, events, errors, console, ncalls, journal>>

-----------------------------------------------------------------------------
(* Bounds of the model *)

MaxEvents == 2

MaxErrors == 2

MaxInFlight == 2

MaxCalls == 3

(* Program constants *)

RECONNECT_DELAY == 5000

ETHER_DECIMALS == 18

TickMs == RECONNECT_DELAY \div 2

Addresses == {"0xA", "0xB"}

-----------------------------------------------------------------------------
(* JavaScript values: undefined/null, numbers and strings, and `a || b`.   *)

Undef == [k |-> "undefined", n |-> 0, s |-> ""]

Num(x) == [k |-> "number", n |-> x, s |-> ""]

Str(x) == [k |-> "string", n |-> 0, s |-> x]

Truthy(v) == (v.k = "number" /\ v.n # 0) \/ (v.k = "string" /\ v.s # "")

OrElse(v, d) == IF Truthy(v) THEN v ELSE d

NA == Str("N/A")

\* value.toString(): throws a TypeError on undefined
ToStr(v) ==
  IF v.k = "undefined" THEN [threw |-> TRUE, s |-> ""]
  ELSE IF v.k = "number" THEN [threw |-> FALSE, s |-> ToString(v.n)]
  ELSE [threw |-> FALSE, s |-> v.s]

-----------------------------------------------------------------------------
(* ethers.utils.formatEther: a wei amount, given by its decimal digits,    *)
(* as "<whole>.<fraction>" with 18 fraction digits, trailing zeros of the  *)
(* fraction removed but one digit kept.                                    *)

RECURSIVE DigitsToStr(_)
DigitsToStr(d) ==
  IF d = <<>> THEN "" ELSE ToString(Head(d)) \o DigitsToStr(Tail(d))

RECURSIVE PadLeft(_, _)
PadLeft(d, len) == IF Len(d) >= len THEN d ELSE PadLeft(<<0>> \o d, len)

RECURSIVE StripLeadingZeros(_)
StripLeadingZeros(d) ==
  IF Len(d) > 1 /\ Head(d) = 0 THEN StripLeadingZeros(Tail(d)) ELSE d

RECURSIVE StripTrailingZeros(_)
StripTrailingZeros(d) ==
  IF Len(d) > 1 /\ d[Len(d)] = 0
  THEN StripTrailingZeros(SubSeq(d, 1, Len(d) - 1))
  ELSE d

formatEther(wei) ==
  LET p == PadLeft(wei, ETHER_DECIMALS + 1)
      whole == StripLeadingZeros(SubSeq(p, 1, Len(p) - ETHER_DECIMALS))
      fraction == StripTrailingZeros(SubSeq(p, Len(p) - ETHER_DECIMALS + 1, Len(p)))
  IN  DigitsToStr(whole) \o "." \o DigitsToStr(fraction)

-----------------------------------------------------------------------------
(* What the collaborators can answer.                                      *)

\* The four read-only calls of erc20Abi, and the construction of the
\* contract handle before them; TRUE is a call that resolved.
ReadOutcomes ==
  { r \in [construct : BOOLEAN, name : BOOLEAN, symbol : BOOLEAN,
           decimals : BOOLEAN, totalSupply : BOOLEAN] :
      ~r.construct => ~(r.name \/ r.symbol \/ r.decimals \/ r.totalSupply) }

\* new ethers.Contract threw: no read is issued
ConstructFailed ==
  [construct |-> FALSE, name |-> FALSE, symbol |-> FALSE, decimals |-> FALSE,
   totalSupply |-> FALSE]

\* the outcomes of reads that were issued, the handle having been built
OnChainOutcomes == {r \in ReadOutcomes : r.construct}

\* The values the chain holds for each contract; totalSupply in wei, as digits.
ChainData(a) ==
  IF a = "0xA"
  THEN [name |-> Str("Alpha"), symbol |-> Str("ALP"), decimals |-> Num(18),
        totalSupply |-> <<1, 5>> \o [i \in 1..17 |-> 0]]
  ELSE [name |-> Str("Beta"), symbol |-> Str("BET"), decimals |-> Num(6),
        totalSupply |-> <<2, 5>>]

NoChain ==
  [name |-> Undef, symbol |-> Undef, decimals |-> Undef, totalSupply |-> <<>>]

\* axios.get of the primary source: ok = FALSE is a rejection (timeout,
\* network error, non-2xx status); null is a body that is not an object;
\* small is data.image?.small and usd is data.market_data?.total_volume?.usd.
CgFailed == [ok |-> FALSE, null |-> FALSE, small |-> Undef, usd |-> Undef]

CgOutcomes ==
  {CgFailed, [CgFailed EXCEPT !.ok = TRUE, !.null = TRUE]}
  \cup { [ok |-> TRUE, null |-> FALSE, small |-> i, usd |-> u] :
           i \in {Undef, Str("cg.png")}, u \in {Undef, Num(0), Num(1234)} }

\* axios.get of the secondary source: has0 is the truthiness of
\* data.result?.[0], logo is data.result[0].logo.
EsFailed == [ok |-> FALSE, null |-> FALSE, has0 |-> FALSE, logo |-> Undef]

EsOutcomes ==
  {EsFailed, [EsFailed EXCEPT !.ok = TRUE, !.null = TRUE],
   [EsFailed EXCEPT !.ok = TRUE]}
  \cup { [ok |-> TRUE, null |-> FALSE, has0 |-> TRUE, logo |-> l] :
           l \in {Undef, Str("es.png")} }

\* The transaction behind a pending hash: `creates` is the contract address
\* its receipt reports ("" when it reports none).
Transactions ==
  { [to |-> Str("0xdead"), data |-> d, creates |-> ""] :
      d \in {Str("0x"), Str("0x6080")} }
  \cup { [to |-> Undef, data |-> d, creates |-> ""] : d \in {Undef, Str("0x")} }
  \cup { [to |-> Undef, data |-> Str("0x6080"), creates |-> a] :
           a \in Addresses \cup {""} }

\* provider.getTransaction(txHash): rejects, resolves to null, or to the transaction
TxOutcomes == {"rejected", "null", "found"}

\* tx.wait(): rejects (reverted, replaced) or resolves to the receipt
WaitOutcomes == {"rejected", "receipt"}

SendOutcomes == {"rejected", "delivered"}

-----------------------------------------------------------------------------
(* Console lines, by the text that starts them.                            *)

LogStarting == "Starting ERC-20 token deployment listener..."

LogVersion == "Ethers version:"

LogDetected == "New ERC-20 token detected at"

LogSent == "Notification sent for new token at"

LogMetadataError == "Error fetching metadata for"

LogSendError == "Error sending Discord notification:"

LogProcessingError == "Error processing transaction:"

LogWsError == "WebSocket error:"

-----------------------------------------------------------------------------
(* formatEther of the supplies the chain holds, computed once.             *)

FormatEtherTable ==
  [w \in {ChainData(a).totalSupply : a \in Addresses} |-> formatEther(w)]

\* line 72: ethers.utils.formatEther(totalSupply)
FormattedSupply(wei) ==
  IF wei \in DOMAIN FormatEtherTable THEN FormatEtherTable[wei]
  ELSE formatEther(wei)

-----------------------------------------------------------------------------
(* Frames: one suspended activation each.                                  *)

NoReads ==
  [tried |-> FALSE, construct |-> FALSE, name |-> FALSE, symbol |-> FALSE,
   decimals |-> FALSE, totalSupply |-> FALSE]

Tried(o) == [x \in DOMAIN o \cup {"tried"} |-> IF x = "tried" THEN TRUE ELSE o[x]]

NoCg == [x \in DOMAIN CgFailed \cup {"tried"} |->
           IF x = "tried" THEN FALSE ELSE CgFailed[x]]

NoEs == [x \in DOMAIN EsFailed \cup {"tried"} |->
           IF x = "tried" THEN FALSE ELSE EsFailed[x]]

NoMd ==
  [name |-> Undef, symbol |-> Undef, decimals |-> Undef, totalSupply |-> Undef,
   icon |-> Undef, volume |-> Undef]

\* fn: the function the frame's owner entered ("callback" for the
\* 'pending' listener); h: the pending notification it serves (0: none);
\* pc: the await it is suspended at; the rest are the locals in scope.
NewFrame(fn, h, pc, addr) ==
  [fn |-> fn, h |-> h, pc |-> pc, addr |-> addr,
   reads |-> NoReads, chain |-> NoChain, cg |-> NoCg, es |-> NoEs,
   icon |-> Undef, volume |-> Undef, md |-> NoMd,
   threw |-> FALSE, val |-> FALSE]

Frames == BagToSet(calls)

Replace(c, d) == (calls (-) SetToBag({c})) (+) SetToBag({d})

Remove(c) == calls (-) SetToBag({c})

InFlight == BagCardinality(calls)

-----------------------------------------------------------------------------
(* isERC20Contract, lines 27-40.                                           *)

\* Promise.all([...]) resolves iff every one of the four calls resolves
PromiseAll(r) == r.name /\ r.symbol /\ r.decimals /\ r.totalSupply

\* as if the calls were gathered with Promise.allSettled, which never rejects
isERC20Contract_AllSettled(r) == [threw |-> FALSE, val |-> r.construct]

\* try { new Contract; await Promise.all } -> true, catch -> false
isERC20Contract(r) ==
  IF r.construct /\ PromiseAll(r)
  THEN [threw |-> FALSE, val |-> TRUE]
  ELSE [threw |-> FALSE, val |-> FALSE]

-----------------------------------------------------------------------------
(* getTokenMetadata, lines 43-79, cut at its awaits.  Each part yields     *)
(* kind "await" (suspended again, frame updated), "return" (frame.md is    *)
(* the value returned) or "throw", with the cache and the lines logged.    *)

Placeholder ==
  [name |-> Str("Unknown"), symbol |-> Str("Unknown"), decimals |-> NA,
   totalSupply |-> NA, icon |-> NA, volume |-> NA]

\* as if the map were replaced by one holding the new entry alone
CachePut_Replace(cache, a, md) == [x \in {a} |-> md]

CachePut(cache, a, md) ==
  [x \in DOMAIN cache \cup {a} |-> IF x = a THEN md ELSE cache[x]]

\* as if the outer catch rethrew after logging
gtmCatch_Rethrow(f, cache) ==
  [kind |-> "throw", frame |-> f, cache |-> cache, lines |-> <<LogMetadataError>>]

\* as if the outer catch stored the placeholder it returns
gtmCatch_CachesPlaceholder(f, cache) ==
  [kind |-> "return", frame |-> [f EXCEPT !.md = Placeholder],
   cache |-> CachePut(cache, f.addr, Placeholder), lines |-> <<LogMetadataError>>]

\* lines 75-78: the outer catch
gtmCatch(f, cache) ==
  [kind |-> "return", frame |-> [f EXCEPT !.md = Placeholder],
   cache |-> cache, lines |-> <<LogMetadataError>>]

\* as if line 44, the lookup in tokenCache, were missing
gtmEnter_NoCacheCheck(f, construct, cache) ==
  IF ~construct
  THEN gtmCatch([f EXCEPT !.reads = Tried(ConstructFailed)], cache)
  ELSE [kind |-> "await", frame |-> [f EXCEPT !.pc = "onchain"],
        cache |-> cache, lines |-> <<>>]

\* line 44, then lines 46-52 up to the await; construct is FALSE when
\* new ethers.Contract of line 46 throws, which the catch of line 75
\* handles before anything is awaited
gtmEnter(f, construct, cache) ==
  IF f.addr \in DOMAIN cache
  THEN [kind |-> "return", frame |-> [f EXCEPT !.md = cache[f.addr]],
        cache |-> cache, lines |-> <<>>]
  ELSE IF ~construct
  THEN gtmCatch([f EXCEPT !.reads = Tried(ConstructFailed)], cache)
  ELSE [kind |-> "await", frame |-> [f EXCEPT !.pc = "onchain"],
        cache |-> cache, lines |-> <<>>]

\* as if line 73, tokenCache.set, were missing
gtmStore_NoCacheSet(f, cache) ==
  [kind |-> "return",
   frame |-> [f EXCEPT !.md =
                [name |-> f.chain.name, symbol |-> f.chain.symbol,
                 decimals |-> f.chain.decimals,
                 totalSupply |-> Str(FormattedSupply(f.chain.totalSupply)),
                 icon |-> f.icon, volume |-> f.volume]],
   cache |-> cache, lines |-> <<>>]

\* as if line 73 stored only when tokenCache had no entry for the address
gtmStore_FirstWriterWins(f, cache) ==
  LET metadata ==
        [name |-> f.chain.name, symbol |-> f.chain.symbol,
         decimals |-> f.chain.decimals,
         totalSupply |-> Str(FormattedSupply(f.chain.totalSupply)),
         icon |-> f.icon, volume |-> f.volume]
  IN  [kind |-> "return", frame |-> [f EXCEPT !.md = metadata],
       cache |-> IF f.addr \in DOMAIN cache THEN cache
                 ELSE CachePut(cache, f.addr, metadata),
       lines |-> <<>>]

\* lines 72-74
gtmStore(f, cache) ==
  LET metadata ==
        [name |-> f.chain.name, symbol |-> f.chain.symbol,
         decimals |-> f.chain.decimals,
         totalSupply |-> Str(FormattedSupply(f.chain.totalSupply)),
         icon |-> f.icon, volume |-> f.volume]
  IN  [kind |-> "return", frame |-> [f EXCEPT !.md = metadata],
       cache |-> CachePut(cache, f.addr, metadata), lines |-> <<>>]

\* as if the reads of lines 47-52 were gathered with Promise.allSettled
gtmAfterReads_AllSettled(f, r, cache) ==
  LET g == [f EXCEPT !.reads = Tried(r)]
  IN  IF r.construct
      THEN [kind |-> "await",
            frame |-> [g EXCEPT !.pc = "primary", !.chain = ChainData(f.addr),
                                !.icon = NA, !.volume = NA],
            cache |-> cache, lines |-> <<>>]
      ELSE gtmCatch(g, cache)

\* as if the record were returned without awaiting the primary request
gtmAfterReads_NoAwait(f, r, cache) ==
  LET g == [f EXCEPT !.reads = Tried(r)]
  IN  IF r.construct /\ PromiseAll(r)
      THEN gtmStore([g EXCEPT !.chain = ChainData(f.addr),
                              !.icon = NA, !.volume = NA], cache)
      ELSE gtmCatch(g, cache)

\* lines 46-53 and 55, resumed with the outcome r of the reads
gtmAfterReads(f, r, cache) ==
  LET g == [f EXCEPT !.reads = Tried(r)]
  IN  IF r.construct /\ PromiseAll(r)
      THEN [kind |-> "await",
            frame |-> [g EXCEPT !.pc = "primary", !.chain = ChainData(f.addr),
                                !.icon = NA, !.volume = NA],
            cache |-> cache, lines |-> <<>>]
      ELSE gtmCatch(g, cache)

\* as if line 62 did not test ETHERSCAN_API_KEY
gtmAfterPrimary_AlwaysSecondary(f, o, key, cache) ==
  LET g == [f EXCEPT !.cg = Tried(o)]
  IN  IF o.ok /\ ~o.null
      THEN gtmStore([g EXCEPT !.icon = OrElse(o.small, NA),
                              !.volume = OrElse(o.usd, NA)], cache)
      ELSE [kind |-> "await", frame |-> [g EXCEPT !.pc = "secondary"],
            cache |-> cache, lines |-> <<>>]

\* as if a primary response without an icon fell back to the secondary source
gtmAfterPrimary_FallsBackOnNoIcon(f, o, key, cache) ==
  LET g == [f EXCEPT !.cg = Tried(o)]
  IN  IF o.ok /\ ~o.null /\ (Truthy(o.small) \/ key = "")
      THEN gtmStore([g EXCEPT !.icon = OrElse(o.small, NA),
                              !.volume = OrElse(o.usd, NA)], cache)
      ELSE IF key # ""
           THEN [kind |-> "await",
                 frame |-> [g EXCEPT !.pc = "secondary",
                                     !.volume = IF o.ok /\ ~o.null
                                                THEN OrElse(o.usd, NA) ELSE @],
                 cache |-> cache, lines |-> <<>>]
           ELSE gtmStore(g, cache)

\* lines 59-64, resumed with the outcome o of the primary request
gtmAfterPrimary(f, o, key, cache) ==
  LET g == [f EXCEPT !.cg = Tried(o)]
  IN  IF o.ok /\ ~o.null
      THEN gtmStore([g EXCEPT !.icon = OrElse(o.small, NA),
                              !.volume = OrElse(o.usd, NA)], cache)
      ELSE IF key # ""
           THEN [kind |-> "await", frame |-> [g EXCEPT !.pc = "secondary"],
                 cache |-> cache, lines |-> <<>>]
           ELSE gtmStore(g, cache)

\* as if a rejected secondary request sent the call back to the primary source
gtmAfterSecondary_BackToPrimary(f, o, cache) ==
  LET g == [f EXCEPT !.es = Tried(o)]
  IN  IF ~o.ok
      THEN [kind |-> "await", frame |-> [g EXCEPT !.pc = "primary"],
            cache |-> cache, lines |-> <<>>]
      ELSE IF ~o.null /\ o.has0
      THEN gtmStore([g EXCEPT !.icon = OrElse(o.logo, NA)], cache)
      ELSE gtmStore(g, cache)

\* lines 68-69, resumed with the outcome o of the secondary request
gtmAfterSecondary(f, o, cache) ==
  LET g == [f EXCEPT !.es = Tried(o)]
  IN  IF o.ok /\ ~o.null /\ o.has0
      THEN gtmStore([g EXCEPT !.icon = OrElse(o.logo, NA)], cache)
      ELSE gtmStore(g, cache)

-----------------------------------------------------------------------------
(* sendDiscordNotification, lines 82-107.                                  *)

\* lines 84-100: the embed; decimals and volume go through toString()
Message(addr, md, h) ==
  LET d == ToStr(md.decimals)
      v == ToStr(md.volume)
  IN  [threw |-> d.threw \/ v.threw,
       fields |-> <<addr, md.name.s, md.symbol.s, d.s, md.totalSupply.s,
                    md.icon.s, v.s, h>>]

\* as if the catch of line 104 sent the message once more
sendSettled_Retry(outcome) ==
  IF outcome = "delivered"
  THEN [threw |-> FALSE, again |-> FALSE, lines |-> <<LogSent>>]
  ELSE [threw |-> FALSE, again |-> TRUE, lines |-> <<LogSendError>>]

\* lines 101-106, resumed with the outcome of webhookClient.send
sendSettled(outcome) ==
  IF outcome = "delivered"
  THEN [threw |-> FALSE, again |-> FALSE, lines |-> <<LogSent>>]
  ELSE [threw |-> FALSE, again |-> FALSE, lines |-> <<LogSendError>>]

-----------------------------------------------------------------------------
(* listenForNewTokens, lines 110-134.                                      *)

\* as if line 116 did not test tx.to
IsCreation_IgnoresTo(tx) == Truthy(tx.data) /\ tx.data # Str("0x")

\* line 116: tx is the transaction getTransaction resolved to
IsCreation(tx) == ~Truthy(tx.to) /\ Truthy(tx.data) /\ tx.data # Str("0x")

\* lines 111-113 and 130: what one run of listenForNewTokens registers
listenForNewTokens(pending, error) ==
  [pending |-> pending + 1, error |-> error + 1,
   lines |-> <<LogStarting, LogVersion>>]

\* as if line 132, the setTimeout, were missing
onWebSocketError_NoRetry == [lines |-> <<LogWsError>>, timer |-> <<>>]

\* lines 131-132: one run of the websocket 'error' handler
onWebSocketError ==
  [lines |-> <<LogWsError>>, timer |-> <<[left |-> RECONNECT_DELAY, age |-> 0]>>]

\* as if the catch of lines 126-128 were empty
onProcessingError_Silent == <<>>

\* lines 126-128: the catch of the callback logs and the callback ends
onProcessingError == <<LogProcessingError>>

RECURSIVE Times(_, _)
Times(sq, k) == IF k = 0 THEN <<>> ELSE sq \o Times(sq, k - 1)

\* The tallies kept for a pending notification: n callbacks started, q
\* conformance checks that returned true, s calls of webhookClient.send,
\* ok of them delivered and f rejected.
NewEvent(tx, listeners) ==
  [tx |-> tx, n |-> listeners, q |-> 0, s |-> 0, ok |-> 0, f |-> 0]

\* callbacks of notification h that have not ended
InFlightOf(h) ==
  BagCardinality([c \in {f \in Frames : f.h = h} |-> calls[c]])

\* A notification whose callbacks have all ended is forgotten when the
\* next one arrives.
Forgotten == NewEvent([to |-> Undef, data |-> Undef, creates |-> ""], 0)

Settled(ev) ==
  [h \in 1..Len(ev) |-> IF InFlightOf(h) = 0 THEN Forgotten ELSE ev[h]]

\* the journal keeps the last two direct calls that returned
Push(j, f) == IF Len(j) < 2 THEN Append(j, f) ELSE <<j[2], f>>

-----------------------------------------------------------------------------
Init ==
  /\ etherscanKey \in {"", "KEY"}
  /\ tokenCache = [a \in {} |-> NoMd]
  /\ pendingListeners = listenForNewTokens(0, 0).pending
  /\ errorListeners = listenForNewTokens(0, 0).error
  /\ timers = <<>>
  /\ calls = EmptyBag
  /\ events = <<>>
  /\ errors = 0
  /\ console = listenForNewTokens(0, 0).lines
  /\ ncalls = 0
  /\ journal = <<>>

\* How the owner of frame c goes on once a part g of getTokenMetadata has
\* run: suspended again, returned to the direct caller, or settled for
\* the callback, whose sendDiscordNotification stays suspended at the
\* await of line 83 until it is resumed with the value or the exception.
\* ev and pre are the tallies and the lines of the step so far.
Settle(c, g, ev, pre) ==
  /\ tokenCache' = g.cache
  /\ console' = pre \o g.lines
  /\ events' = ev
  /\ IF g.kind = "await"
     THEN /\ calls' = Replace(c, g.frame)
          /\ UNCHANGED journal
     ELSE IF c.fn # "callback"
     THEN /\ calls' = Remove(c)
          /\ journal' = Push(journal, [g.frame EXCEPT !.pc = "returned",
                                          !.threw = (g.kind = "throw")])
     ELSE /\ calls' = Replace(c, [NewFrame("callback", c.h, "metadata", c.addr)
                                   EXCEPT !.md = g.frame.md,
                                          !.threw = (g.kind = "throw")])
          /\ UNCHANGED journal

\* The provider delivers a pending hash: every registered callback runs up
\* to its first await, line 115.
Emit ==
  \E tx \in Transactions :
    /\ Len(events) < MaxEvents
    /\ InFlight + pendingListeners <= MaxInFlight
    /\ events' = Append(Settled(events), NewEvent(tx, pendingListeners))
    /\ calls' = calls (+) [f \in {NewFrame("callback", Len(events) + 1, "getTx", "")}
                             |-> pendingListeners]
    /\ console' = <<>>
    /\ UNCHANGED <<etherscanKey, tokenCache, pendingListeners, errorListeners,
                   timers, errors, ncalls, journal>>

\* line 115 settles; line 116 decides; line 117 suspends
GetTxDone ==
  \E c \in Frames, o \in TxOutcomes :
    /\ c.pc = "getTx"
    /\ IF o = "rejected"
       THEN calls' = Remove(c) /\ console' = onProcessingError
       ELSE IF o = "found" /\ IsCreation(events[c.h].tx)
       THEN calls' = Replace(c, [c EXCEPT !.pc = "wait"]) /\ console' = <<>>
       ELSE calls' = Remove(c) /\ console' = <<>>
    /\ UNCHANGED <<etherscanKey, tokenCache, pendingListeners, errorListeners,
                   timers, events, errors, ncalls, journal>>

\* line 117 settles; line 118 decides; line 119 suspends in isERC20Contract
WaitDone ==
  \E c \in Frames, o \in WaitOutcomes :
    /\ c.pc = "wait"
    /\ IF o = "rejected"
       THEN calls' = Remove(c) /\ console' = onProcessingError
       ELSE IF events[c.h].tx.creates # ""
       THEN /\ calls' = Replace(c, [c EXCEPT !.pc = "erc20",
                                             !.addr = events[c.h].tx.creates])
            /\ console' = <<>>
       ELSE calls' = Remove(c) /\ console' = <<>>
    /\ UNCHANGED <<etherscanKey, tokenCache, pendingListeners, errorListeners,
                   timers, events, errors, ncalls, journal>>

\* lines 30-39 settle; in the callback lines 120-122 follow, entering
\* sendDiscordNotification and getTokenMetadata up to their first await
\* (construct: whether new ethers.Contract of line 46 succeeds)
Erc20Done ==
  \E c \in Frames, r \in ReadOutcomes, construct \in BOOLEAN :
    /\ c.pc = "erc20"
    /\ LET res == isERC20Contract(r) IN
       IF c.fn # "callback"
       THEN /\ calls' = Remove(c)
            /\ journal' = Push(journal, [c EXCEPT !.pc = "returned",
                                           !.reads = Tried(r),
                                           !.threw = res.threw, !.val = res.val])
            /\ console' = <<>>
            /\ UNCHANGED <<tokenCache, events>>
       ELSE IF res.threw
       THEN /\ calls' = Remove(c)
            /\ console' = onProcessingError
            /\ UNCHANGED <<tokenCache, events, journal>>
       ELSE IF ~res.val
       THEN /\ calls' = Remove(c)
            /\ console' = <<>>
            /\ UNCHANGED <<tokenCache, events, journal>>
       ELSE Settle(c, gtmEnter(c, construct, tokenCache),
                   [events EXCEPT ![c.h].q = @ + 1], <<LogDetected>>)
    /\ UNCHANGED <<etherscanKey, pendingListeners, errorListeners, timers,
                   errors, ncalls>>

\* the await of lines 47-52 settles
OnChainDone ==
  \E c \in Frames, r \in OnChainOutcomes :
    /\ c.pc = "onchain"
    /\ Settle(c, gtmAfterReads(c, r, tokenCache), events, <<>>)
    /\ UNCHANGED <<etherscanKey, pendingListeners, errorListeners, timers,
                   errors, ncalls>>

\* the await of lines 55-58 settles
PrimaryDone ==
  \E c \in Frames, o \in CgOutcomes :
    /\ c.pc = "primary"
    /\ Settle(c, gtmAfterPrimary(c, o, etherscanKey, tokenCache), events, <<>>)
    /\ UNCHANGED <<etherscanKey, pendingListeners, errorListeners, timers,
                   errors, ncalls>>

\* the await of lines 64-67 settles
SecondaryDone ==
  \E c \in Frames, o \in EsOutcomes :
    /\ c.pc = "secondary"
    /\ Settle(c, gtmAfterSecondary(c, o, tokenCache), events, <<>>)
    /\ UNCHANGED <<etherscanKey, pendingListeners, errorListeners, timers,
                   errors, ncalls>>

\* the await of line 83 resumes with what getTokenMetadata settled to:
\* lines 84-102 build the message and call webhookClient.send, or the
\* exception lands in the catch of line 126
MetadataDone ==
  \E c \in Frames :
    /\ c.pc = "metadata"
    /\ IF c.threw \/ Message(c.addr, c.md, c.h).threw
       THEN /\ calls' = Remove(c)
            /\ console' = onProcessingError
            /\ events' = events
       ELSE /\ calls' = Replace(c, [c EXCEPT !.pc = "send"])
            /\ console' = <<>>
            /\ events' = [events EXCEPT ![c.h].s = @ + 1]
    /\ UNCHANGED <<etherscanKey, tokenCache, pendingListeners, errorListeners,
                   timers, errors, ncalls, journal>>

\* the await of line 102 settles; lines 103-106, then the callback ends
SendDone ==
  \E c \in Frames, o \in SendOutcomes :
    /\ c.pc = "send"
    /\ LET r == sendSettled(o)
           ev == IF o = "delivered"
                 THEN [events EXCEPT ![c.h].ok = @ + 1]
                 ELSE [events EXCEPT ![c.h].f = @ + 1]
       IN  IF r.again
           THEN /\ calls' = calls
                /\ events' = [ev EXCEPT ![c.h].s = @ + 1]
                /\ console' = r.lines
           ELSE /\ calls' = Remove(c)
                /\ events' = ev
                /\ console' = IF r.threw THEN r.lines \o onProcessingError
                              ELSE r.lines
    /\ UNCHANGED <<etherscanKey, tokenCache, pendingListeners, errorListeners,
                   timers, errors, ncalls, journal>>

\* the websocket emits 'error': every registered handler runs, lines 131-132
WsError ==
  /\ errors < MaxErrors
  /\ errors' = errors + 1
  /\ console' = Times(onWebSocketError.lines, errorListeners)
  /\ timers' = timers \o Times(onWebSocketError.timer, errorListeners)
  /\ UNCHANGED <<etherscanKey, tokenCache, pendingListeners, errorListeners,
                 calls, events, ncalls, journal>>

\* TickMs of time pass
Tick ==
  /\ \E i \in 1..Len(timers) : timers[i].left > 0
  /\ timers' = [i \in 1..Len(timers) |->
                  [left |-> IF timers[i].left > TickMs
                            THEN timers[i].left - TickMs ELSE 0,
                   age |-> IF timers[i].age + TickMs < RECONNECT_DELAY
                           THEN timers[i].age + TickMs ELSE RECONNECT_DELAY]]
  /\ UNCHANGED <<etherscanKey, tokenCache, pendingListeners, errorListeners,
                 calls, events, errors, console, ncalls, journal>>

\* the earliest timer is due: setTimeout runs listenForNewTokens
TimerFire ==
  /\ timers # <<>>
  /\ Head(timers).left = 0
  /\ timers' = Tail(timers)
  /\ LET l == listenForNewTokens(pendingListeners, errorListeners) IN
       /\ pendingListeners' = l.pending
       /\ errorListeners' = l.error
       /\ console' = l.lines
  /\ UNCHANGED <<etherscanKey, tokenCache, calls, events, errors, ncalls, journal>>

Next ==
  \/ Emit
  \/ GetTxDone
  \/ WaitDone
  \/ Erc20Done
  \/ OnChainDone
  \/ PrimaryDone
  \/ SecondaryDone
  \/ MetadataDone
  \/ SendDone
  \/ WsError
  \/ Tick
  \/ TimerFire

Spec == Init /\ [][Next]_vars

\* Time passes and due timers run.
FairSpec == Spec /\ WF_vars(Tick) /\ WF_vars(TimerFire)

-----------------------------------------------------------------------------
(* A caller that invokes the two functions directly, one call at a time.   *)

CallGetTokenMetadata ==
  \E a \in Addresses, construct \in BOOLEAN :
    /\ calls = EmptyBag
    /\ ncalls < MaxCalls
    /\ ncalls' = ncalls + 1
    /\ LET c == NewFrame("getTokenMetadata", 0, "entry", a)
       IN  Settle(c, gtmEnter(c, construct, tokenCache), events, <<>>)
    /\ UNCHANGED <<etherscanKey, pendingListeners, errorListeners, timers, errors>>

CallIsERC20Contract ==
  \E a \in Addresses :
    /\ calls = EmptyBag
    /\ ncalls < MaxCalls
    /\ ncalls' = ncalls + 1
    /\ calls' = SetToBag({NewFrame("isERC20Contract", 0, "erc20", a)})
    /\ console' = <<>>
    /\ UNCHANGED <<etherscanKey, tokenCache, pendingListeners, errorListeners,
                   timers, events, errors, journal>>

CallNext ==
  \/ CallGetTokenMetadata
  \/ CallIsERC20Contract
  \/ Erc20Done
  \/ OnChainDone
  \/ PrimaryDone
  \/ SecondaryDone

CallSpec == Init /\ [][CallNext]_vars

-----------------------------------------------------------------------------
(* The callbacks alone, on a transport that raises no error, with every    *)
(* provider call, HTTP request and webhook call answering or failing in    *)
(* the end.                                                                *)

CallbackNext ==
  \/ Emit
  \/ GetTxDone
  \/ WaitDone
  \/ Erc20Done
  \/ OnChainDone
  \/ PrimaryDone
  \/ SecondaryDone
  \/ MetadataDone
  \/ SendDone

CallbackFairSpec ==
  /\ Init
  /\ [][CallbackNext]_vars
  /\ WF_vars(GetTxDone)
  /\ WF_vars(WaitDone)
  /\ WF_vars(Erc20Done)
  /\ WF_vars(OnChainDone)
  /\ WF_vars(PrimaryDone)
  /\ WF_vars(SecondaryDone)
  /\ WF_vars(MetadataDone)
  /\ WF_vars(SendDone)

-----------------------------------------------------------------------------
(* Properties                                                              *)

IsCall(f, fn) == f.fn = fn /\ f.pc = "returned"

ReadsOk(f) == f.reads.tried /\ f.reads.construct /\ PromiseAll(f.reads)

ReadsFailed(f) == f.reads.tried /\ ~(f.reads.construct /\ PromiseAll(f.reads))

NoLookup(f) == ~f.reads.tried /\ ~f.cg.tried /\ ~f.es.tried

\* no kind of lookup is made by both calls
OnceInTotal(f, g) ==
  /\ ~(f.reads.tried /\ g.reads.tried)
  /\ ~(f.cg.tried /\ g.cg.tried)
  /\ ~(f.es.tried /\ g.es.tried)

TwiceInSequence ==
  /\ Len(journal) = 2
  /\ IsCall(journal[1], "getTokenMetadata")
  /\ IsCall(journal[2], "getTokenMetadata")
  /\ journal[1].addr = journal[2].addr

Ended(h) == events[h].n - InFlightOf(h)

Hashes == 1..Len(events)

\* C1 as stated: of two getTokenMetadata(A) calls in sequence the second
\* issues no lookup and returns the first call's value, whatever happened
\* in the first.
C1_SecondCallNeverLooksUp ==
  TwiceInSequence =>
    /\ NoLookup(journal[2])
    /\ OnceInTotal(journal[1], journal[2])
    /\ journal[2].md = journal[1].md

\* C1 amended: when the first call's on-chain reads did not fail (it read
\* the chain or was itself served from the cache) the second call issues
\* no lookup and returns an equal value; when they failed nothing was
\* cached and the second call is not served from the cache: it enters
\* the resolution from the chain again.
C1_SecondCallServedFromCache ==
  TwiceInSequence =>
    /\ ~ReadsFailed(journal[1]) =>
         /\ NoLookup(journal[2])
         /\ OnceInTotal(journal[1], journal[2])
         /\ journal[2].md = journal[1].md
    /\ ReadsFailed(journal[1]) => journal[2].reads.tried

C1_Witness ==
  /\ TwiceInSequence
  /\ ReadsOk(journal[1])
  /\ journal[1].cg.tried
  /\ NoLookup(journal[2])

\* C2: isERC20Contract returns true iff the handle is built and name,
\* symbol, decimals and totalSupply all succeed; otherwise it returns
\* false; it never throws.
C2_Erc20IffAllFour ==
  \A i \in 1..Len(journal) :
    IsCall(journal[i], "isERC20Contract") =>
      /\ ~journal[i].threw
      /\ journal[i].val <=>
           /\ journal[i].reads.construct
           /\ journal[i].reads.name
           /\ journal[i].reads.symbol
           /\ journal[i].reads.decimals
           /\ journal[i].reads.totalSupply

C2_Witness ==
  \E i \in 1..Len(journal) :
    /\ IsCall(journal[i], "isERC20Contract")
    /\ journal[i].reads.name /\ journal[i].reads.symbol /\ journal[i].reads.decimals
    /\ ~journal[i].reads.totalSupply
    /\ ~journal[i].val

\* C3: a callback gets past line 116 only for a transaction without `to`
\* and with a non-empty payload, and reaches the conformance check or
\* anything after it only with the contract address of the receipt; a
\* transaction with `to` present is never checked and never notified.
C3_OnlyCreationsAreChecked ==
  /\ \A c \in Frames :
       c.fn = "callback" /\ c.pc # "getTx" =>
         /\ ~Truthy(events[c.h].tx.to)
         /\ Truthy(events[c.h].tx.data)
         /\ events[c.h].tx.data # Str("0x")
         /\ c.pc # "wait" =>
              /\ events[c.h].tx.creates # ""
              /\ c.addr = events[c.h].tx.creates
  /\ \A h \in Hashes :
       Truthy(events[h].tx.to) => events[h].q = 0 /\ events[h].s = 0

C3_Witness ==
  \E h \in Hashes :
    /\ Truthy(events[h].tx.to)
    /\ events[h].tx.data = Str("0x6080")
    /\ Ended(h) = events[h].n

\* C4 as stated: a pending transaction is notified exactly once when its
\* conformance check returned true and never when it did not, also after
\* transport errors and resubscriptions.
C4_ExactlyOneNotification ==
  \A h \in Hashes :
    /\ events[h].s <= 1
    /\ events[h].q = 0 => events[h].s = 0
    /\ (events[h].q > 0 /\ Ended(h) = events[h].n) => events[h].s = 1

\* C5 as stated: exactly one 'pending' callback is registered at all times.
C5_OneCallbackRegistered == pendingListeners = 1

MaxListeners == 2 ^ MaxErrors

\* C6: a transport error is logged by every handler and schedules the
\* resubscription, touching neither the callbacks registered nor those in
\* flight; listenForNewTokens runs from a timer no sooner than
\* RECONNECT_DELAY after the error and registers again; and every
\* resubscription scheduled does happen.
C6_ErrorLeadsToResubscription ==
  /\ [][errors' > errors =>
          /\ console' = Times(<<LogWsError>>, errorListeners)
          /\ Len(timers') = Len(timers) + errorListeners
          /\ \A i \in Len(timers) + 1..Len(timers') :
               timers'[i].left = RECONNECT_DELAY
          /\ UNCHANGED <<pendingListeners, errorListeners, calls>>]_vars
  /\ [][Len(timers') < Len(timers) =>
          /\ Head(timers).age >= RECONNECT_DELAY
          /\ pendingListeners' = pendingListeners + 1
          /\ errorListeners' = errorListeners + 1
          /\ UNCHANGED calls]_vars
  /\ \A k \in 1..MaxListeners :
       (pendingListeners + Len(timers) >= k) ~> (pendingListeners >= k)

\* every error was raised, the later ones with the handlers of the earlier
\* resubscriptions registered too, and every retry scheduled has run
C6_Witness ==
  /\ errors = MaxErrors
  /\ timers = <<>>
  /\ pendingListeners = MaxListeners
  /\ errorListeners = MaxListeners

\* C7: getTokenMetadata never throws; whatever the reads and the two
\* requests do, it returns a record with all six fields set.
C7_MetadataNeverFails ==
  \A i \in 1..Len(journal) :
    IsCall(journal[i], "getTokenMetadata") =>
      /\ ~journal[i].threw
      /\ \A x \in DOMAIN NoMd : journal[i].md[x].k = "string" \/ journal[i].md[x].k = "number"

C7_Witness ==
  \E i \in 1..Len(journal) :
    /\ IsCall(journal[i], "getTokenMetadata")
    /\ journal[i].cg.tried /\ ~journal[i].cg.ok
    /\ journal[i].es.tried /\ ~journal[i].es.ok

\* C8: reads succeeded, primary request rejected, no secondary key: icon
\* and volume are "N/A", name and symbol are the chain's, no secondary
\* request was made, and the cache holds the record returned.
C8_PrimaryFailedNoKey ==
  \A i \in 1..Len(journal) :
    ( /\ IsCall(journal[i], "getTokenMetadata")
      /\ ReadsOk(journal[i])
      /\ journal[i].cg.tried /\ ~journal[i].cg.ok
      /\ etherscanKey = "" ) =>
      /\ journal[i].md.icon = NA
      /\ journal[i].md.volume = NA
      /\ journal[i].md.name = ChainData(journal[i].addr).name
      /\ journal[i].md.symbol = ChainData(journal[i].addr).symbol
      /\ ~journal[i].es.tried
      /\ journal[i].addr \in DOMAIN tokenCache
      /\ tokenCache[journal[i].addr] = journal[i].md

C8_Witness ==
  \E i \in 1..Len(journal) :
    /\ IsCall(journal[i], "getTokenMetadata")
    /\ ReadsOk(journal[i])
    /\ journal[i].cg.tried /\ ~journal[i].cg.ok
    /\ etherscanKey = ""
    /\ journal[i].md.icon = NA

\* C9: the webhook is called once per sendDiscordNotification; a rejected
\* call is logged, is not followed by another call, throws nothing into
\* the callback's catch, and leaves the subscription in place.
C9_SingleBestEffortSend ==
  /\ [](\A h \in Hashes : events[h].s <= events[h].q)
  /\ [][\A h \in Hashes :
          events'[h].f > events[h].f =>
            /\ console' = <<LogSendError>>
            /\ events'[h].s = events[h].s
            /\ InFlightOf(h)' = InFlightOf(h) - 1
            /\ UNCHANGED <<pendingListeners, errorListeners>>]_vars

C9_Witness ==
  \E h \in Hashes :
    /\ events[h].f = 1
    /\ events[h].s = 1
    /\ console = <<LogSendError>>

\* C10 as stated: the value cached for an address never changes.
C10_CachedValueNeverChanges ==
  [][\A a \in DOMAIN tokenCache :
       a \in DOMAIN tokenCache' /\ tokenCache'[a] = tokenCache[a]]_vars

\* C10 amended: an entry is never removed, and its value changes only in
\* a step that completes a getTokenMetadata call for the same address
\* that was already past the cache check, at its primary or secondary
\* request.
C10_OnlyInFlightCallOverwrites ==
  [][\A a \in DOMAIN tokenCache :
       /\ a \in DOMAIN tokenCache'
       /\ tokenCache'[a] # tokenCache[a] =>
            \E c \in Frames :
              /\ c.addr = a
              /\ c.pc \in {"primary", "secondary"}
              /\ CopiesIn(c, calls') < CopiesIn(c, calls)]_vars

C10_Witness ==
  \E c \in Frames :
    /\ c.pc \in {"primary", "secondary"}
    /\ c.addr \in DOMAIN tokenCache
    /\ \E d \in Frames : d.pc = "send" /\ d.addr = c.addr /\ d.md = tokenCache[c.addr]

LastCall == journal[Len(journal)]

\* C11: when the handle cannot be built or any of the four reads fails,
\* getTokenMetadata returns the placeholder, has made neither the primary
\* nor the secondary request, and leaves the cache without an entry for
\* the address; the next call for the address enters the resolution from
\* the chain again, and when its reads succeed it returns and caches the
\* chain's values.
C11_FailedReadsGivePlaceholder ==
  /\ \A i \in 1..Len(journal) :
       IsCall(journal[i], "getTokenMetadata") /\ ReadsFailed(journal[i]) =>
         /\ journal[i].md = Placeholder
         /\ ~journal[i].threw
         /\ ~journal[i].cg.tried
         /\ ~journal[i].es.tried
  /\ ( /\ journal # <<>>
       /\ IsCall(LastCall, "getTokenMetadata")
       /\ ReadsFailed(LastCall) ) => LastCall.addr \notin DOMAIN tokenCache
  /\ (TwiceInSequence /\ ReadsFailed(journal[1])) =>
       /\ journal[2].reads.tried
       /\ ReadsOk(journal[2]) =>
            /\ journal[2].cg.tried
            /\ journal[2].md.name = ChainData(journal[2].addr).name
            /\ journal[2].md.symbol = ChainData(journal[2].addr).symbol
            /\ journal[2].addr \in DOMAIN tokenCache
            /\ tokenCache[journal[2].addr] = journal[2].md

C11_Witness ==
  /\ TwiceInSequence
  /\ journal[1].reads.construct /\ journal[1].reads.name
  /\ ~journal[1].reads.decimals
  /\ journal[1].md = Placeholder
  /\ ReadsOk(journal[2])
  /\ journal[2].md.icon = Str("cg.png")
  /\ tokenCache[journal[2].addr] = journal[2].md

\* the activations suspended inside a lookup of getTokenMetadata
LookingUp(b) ==
  BagCardinality([c \in {f \in BagToSet(b) :
                           f.pc \in {"onchain", "primary", "secondary"}} |-> b[c]])

\* the callback of notification h with getTokenMetadata settled to md,
\* not yet resumed at line 83
AtMetadata(h, a, md) == [NewFrame("callback", h, "metadata", a) EXCEPT !.md = md]

\* the callback of notification h suspended at webhookClient.send with md
AtSend(h, a, md) == [NewFrame("callback", h, "send", a) EXCEPT !.md = md]

\* C12: in every step in which a callback enters getTokenMetadata for an
\* address the cache holds, whatever else is in flight, the call returns
\* the cached entry in that same step: the cache is left as it was, no
\* activation is added to those suspended in an on-chain or HTTP lookup,
\* nothing but the detection is logged, and the callback holds exactly
\* that entry as the value of getTokenMetadata.
\* The cache is a map from addresses: one entry per address at most.
C12_CacheHitShortCircuits ==
  /\ [](DOMAIN tokenCache \subseteq Addresses)
  /\ [][\A h \in Hashes :
          ( /\ events'[h].q = events[h].q + 1
            /\ events[h].tx.creates \in DOMAIN tokenCache ) =>
            LET a == events[h].tx.creates
                d == AtMetadata(h, a, tokenCache[a])
            IN  /\ tokenCache' = tokenCache
                /\ LookingUp(calls') = LookingUp(calls)
                /\ BagIn(d, calls')
                /\ CopiesIn(d, calls') = CopiesIn(d, calls) + 1
                /\ console' = <<LogDetected>>]_vars

C12_Witness ==
  /\ console = <<LogDetected>>
  /\ \A c \in Frames : c.pc # "onchain"
  /\ \E c \in Frames :
       /\ c.pc = "metadata"
       /\ c.addr \in DOMAIN tokenCache
       /\ c = AtMetadata(c.h, c.addr, tokenCache[c.addr])
  /\ InFlight = 2

\* the primary request resolved with a body whose fields can be read
PrimaryOk(f) == f.cg.tried /\ f.cg.ok /\ ~f.cg.null

PrimaryFailed(f) == f.cg.tried /\ ~(f.cg.ok /\ ~f.cg.null)

\* C13: in one getTokenMetadata call the secondary request is made only
\* after the primary request was made and failed, and only with a key
\* configured; after a primary success it is not made, even when the
\* response had no icon.  The icon returned is the primary's or "N/A"
\* after a primary success, the secondary's or "N/A" otherwise; the
\* volume is the primary's figure or "N/A", and "N/A" whenever the
\* primary failed.
C13_SecondaryIsPureFallback ==
  \A i \in 1..Len(journal) :
    (IsCall(journal[i], "getTokenMetadata") /\ ReadsOk(journal[i])) =>
      LET f == journal[i] IN
      /\ f.cg.tried
      /\ f.es.tried <=> (PrimaryFailed(f) /\ etherscanKey # "")
      /\ PrimaryOk(f) =>
           /\ ~f.es.tried
           /\ f.md.icon \in {f.cg.small, NA}
           /\ f.md.volume \in {f.cg.usd, NA}
      /\ PrimaryFailed(f) =>
           /\ f.md.volume = NA
           /\ f.md.icon \in {f.es.logo, NA}
           /\ ~f.es.tried => f.md.icon = NA

C13_Witness ==
  /\ Len(journal) = 2
  /\ etherscanKey # ""
  /\ IsCall(journal[1], "getTokenMetadata")
  /\ PrimaryOk(journal[1])
  /\ journal[1].cg.small = Undef
  /\ ~journal[1].es.tried
  /\ journal[1].md.icon = NA
  /\ IsCall(journal[2], "getTokenMetadata")
  /\ PrimaryFailed(journal[2])
  /\ journal[2].es.tried
  /\ journal[2].md.icon = Str("es.png")
  /\ journal[2].md.volume = NA

\* C14 as stated: after a primary success the volume returned is the
\* response's USD figure whenever the response has one, a figure of 0
\* included, and the icon returned is the response's icon whenever it
\* has one; a field is "N/A" only when the response lacks it.
C14_PresentFieldsAreKept ==
  \A i \in 1..Len(journal) :
    (IsCall(journal[i], "getTokenMetadata") /\ PrimaryOk(journal[i])) =>
      LET f == journal[i] IN
      /\ f.cg.usd # Undef => f.md.volume = f.cg.usd
      /\ f.cg.small # Undef => f.md.icon = f.cg.small
      /\ f.md.volume = NA => f.cg.usd = Undef
      /\ f.md.icon = NA => f.cg.small = Undef

\* one more copy of frame d is in flight after the step
Arrives(d) == BagIn(d, calls') /\ CopiesIn(d, calls') = CopiesIn(d, calls) + 1

\* one copy of frame c has left the await it was suspended at
Leaves(c) == CopiesIn(c, calls') < CopiesIn(c, calls)

\* C15: nothing makes a resolution that is past the cache check look at
\* the cache again.  Whatever the cache holds by then, the call whose
\* reads settle goes on to the primary request (or returns the
\* placeholder when they failed), and the call whose last request
\* settles stores its own record under its address, over any entry
\* another call stored meanwhile: two calls for one address that both
\* missed the cache both look everything up and both write the entry.
C15_NoMutualExclusion ==
  [][\A c \in Frames :
       /\ (c.pc = "onchain" /\ Leaves(c)) =>
            /\ tokenCache' = tokenCache
            /\ \/ LookingUp(calls') = LookingUp(calls)
               \/ Arrives(AtMetadata(c.h, c.addr, Placeholder))
       /\ (c.pc \in {"primary", "secondary"} /\ Leaves(c)) =>
            \/ c.pc = "primary" /\ LookingUp(calls') = LookingUp(calls)
            \/ /\ c.addr \in DOMAIN tokenCache'
               /\ tokenCache'[c.addr].name = c.chain.name
               /\ Arrives(AtMetadata(c.h, c.addr, tokenCache'[c.addr]))]_vars

C15_Witness ==
  \E c, d \in Frames :
    /\ c.pc = "send" /\ d.pc = "send"
    /\ c.addr = d.addr
    /\ c.md # d.md
    /\ c.md # Placeholder /\ d.md # Placeholder
    /\ tokenCache[c.addr] = d.md

\* C16: the subscription is never removed.  A callback whose receipt wait
\* is rejected logs the error; a step that logs a processing error ends
\* one callback and nothing else: the callbacks and error handlers
\* registered, the timers, the cache, the other callbacks in flight and
\* the tallies of the other notifications are as before.  Every
\* notification that arrives, before or after such an error, starts one
\* callback per registered listener.
C16_ErrorDropsOneEvent ==
  /\ [](pendingListeners >= 1)
  /\ [][\A c \in Frames :
          ( /\ c.pc = "wait" /\ Leaves(c)
            /\ events[c.h].tx.creates # ""
            /\ InFlight' < InFlight ) => console' = <<LogProcessingError>>]_vars
  /\ [][( /\ calls' # calls
          /\ console' # <<>>
          /\ console'[Len(console')] = LogProcessingError ) =>
          /\ \E c \in Frames :
               /\ calls' = Remove(c)
               /\ \A h \in Hashes : h # c.h => events'[h] = events[h]
          /\ Len(events') = Len(events)
          /\ UNCHANGED <<pendingListeners, errorListeners, timers, tokenCache>>]_vars
  /\ [][Len(events') > Len(events) =>
          /\ events'[Len(events')].n = pendingListeners
          /\ CopiesIn(NewFrame("callback", Len(events'), "getTx", ""), calls')
               = pendingListeners]_vars

C16_Witness ==
  /\ console = <<LogProcessingError>>
  /\ pendingListeners >= 1
  /\ \E h \in Hashes :
       /\ events[h].tx.creates # ""
       /\ events[h].n >= 1
       /\ InFlightOf(h) = 0
       /\ events[h].q = 0
       /\ \E c \in Frames : c.h > h /\ c.pc = "getTx"

\* a callback of notification h is suspended at tx.wait(), line 117
AwaitingReceipt(h) == \E c \in Frames : c.h = h /\ c.pc = "wait"

\* C17: when every call a callback awaits answers or fails in the end,
\* every callback that was started ends, and a callback suspended at
\* tx.wait() leaves that wait.
C17_CallbacksFinish ==
  \A h \in 1..MaxEvents :
    /\ (InFlightOf(h) > 0) ~> (InFlightOf(h) = 0)
    /\ AwaitingReceipt(h) ~> ~AwaitingReceipt(h)

C17_Witness ==
  \E h \in Hashes :
    /\ events[h].n >= 1
    /\ InFlightOf(h) = 0
    /\ events[h].ok = 1
    /\ console = <<LogSent>>

\* the callbacks of notification h suspended inside getTokenMetadata
LookingUpOf(h) ==
  BagCardinality([c \in {f \in Frames : f.h = h /\ f.pc \in {"onchain", "primary", "secondary"}}
                    |-> calls[c]])

\* the callbacks of notification h for which getTokenMetadata has settled
\* and that have not been resumed at line 83
SettledOf(h) ==
  BagCardinality([c \in {f \in Frames : f.h = h /\ f.pc = "metadata"} |-> calls[c]])

\* C18: a callback calls webhookClient.send only with the conformance
\* check passed and getTokenMetadata returned.  Of the callbacks of a
\* notification that passed the check, those inside getTokenMetadata or
\* not yet resumed with its value have not called send and the others
\* have, once each; a callback at send holds the receipt's address and a
\* complete record.  The step that calls send resumes a callback whose
\* getTokenMetadata had settled without an exception, with the record it
\* settled to.  getTokenMetadata settles from the cache or from a failed
\* constructor at entry, with the placeholder when the reads settle, or
\* after the primary or the secondary request settled.
C18_SendAfterEnrichment ==
  /\ [](\A h \in Hashes :
         /\ events[h].s <= events[h].q
         /\ InFlightOf(h) > 0 =>
              LookingUpOf(h) + SettledOf(h) = events[h].q - events[h].s)
  /\ [](\A c \in Frames :
         c.pc = "send" =>
           /\ c.addr = events[c.h].tx.creates
           /\ \A x \in DOMAIN NoMd : c.md[x] # Undef)
  /\ [][\A h \in Hashes :
          events'[h].s > events[h].s =>
            \E c \in Frames :
              /\ c.h = h /\ c.pc = "metadata" /\ ~c.threw
              /\ Leaves(c)
              /\ Arrives(AtSend(h, c.addr, c.md))
              /\ events'[h].q = events[h].q
              /\ LookingUpOf(h)' = LookingUpOf(h)]_vars
  /\ [][\A h \in Hashes :
          SettledOf(h)' > SettledOf(h) =>
            \E c \in Frames :
              /\ c.h = h /\ Leaves(c)
              /\ events'[h].s = events[h].s
              /\ \E md \in {Placeholder} \cup {tokenCache'[a] : a \in DOMAIN tokenCache'} :
                   /\ Arrives(AtMetadata(h, c.addr, md))
                   /\ \/ /\ c.pc = "erc20"
                         /\ events'[h].q = events[h].q + 1
                         /\ IF c.addr \in DOMAIN tokenCache
                            THEN md = tokenCache[c.addr]
                            ELSE md = Placeholder
                      \/ c.pc = "onchain" /\ md = Placeholder
                      \/ /\ c.pc \in {"primary", "secondary"}
                         /\ events'[h].q = events[h].q
                         /\ md = tokenCache'[c.addr]]_vars

C18_Witness ==
  \E c \in Frames :
    /\ c.pc = "send"
    /\ c.md.icon = Str("es.png")
    /\ events[c.h].n = 1
    /\ events[c.h].q = 1
    /\ events[c.h].s = 1
    /\ LookingUpOf(c.h) = 0

\* C19: the cache changes only in a step that resumes a getTokenMetadata
\* call whose reads had all succeeded, at its primary or secondary
\* request, and then only at that call's address: every other entry is
\* kept with its value.  Steps that settle getTransaction, tx.wait, the
\* conformance check, failed or pending reads of getTokenMetadata or a
\* webhook call, steps that enter getTokenMetadata (on a hit or a miss),
\* steps that resume sendDiscordNotification with its value,
\* transport errors, timers and new notifications leave the cache as it
\* is.  No step removes an entry.
C19_CacheFrame ==
  /\ [][tokenCache' # tokenCache =>
          \E c \in Frames :
            /\ c.pc \in {"primary", "secondary"}
            /\ Leaves(c)
            /\ ReadsOk(c)
            /\ DOMAIN tokenCache' = DOMAIN tokenCache \cup {c.addr}
            /\ \A a \in DOMAIN tokenCache :
                 a # c.addr => tokenCache'[a] = tokenCache[a]]_vars
  /\ [][( \/ \E c \in Frames :
               c.pc \in {"getTx", "wait", "erc20", "onchain", "metadata", "send"}
               /\ Leaves(c)
          \/ errors' # errors
          \/ timers' # timers
          \/ Len(events') # Len(events) ) => tokenCache' = tokenCache]_vars
  /\ [][DOMAIN tokenCache \subseteq DOMAIN tokenCache']_vars

C19_Witness ==
  /\ tokenCache # <<>>
  /\ \E d \in Frames :
       /\ d.pc = "send"
       /\ d.md = Placeholder
       /\ d.addr \notin DOMAIN tokenCache
  /\ errors > 0

====
